---------------------------- MODULE Spec2Model ----------------------------
(***************************************************************************)
(* A model of the file-backed wiki server of blchelle/go-web-app.          *)
(*                                                                         *)
(* The repository holds two builds of the same server:                     *)
(*   - src/unnamed/part_000: every route is wrapped by makeHandler, which  *)
(*     matches the path against validPath and hands the title to the       *)
(*     handler (build = "regexp");                                         *)
(*   - src/wiki.go: every handler slices the title off the path itself     *)
(*     (build = "prefix").                                                 *)
(* Both register their handlers on the default ServeMux under "/view/",    *)
(* "/edit/" and "/save/".                                                  *)
(*                                                                         *)
(* Go strings and byte slices are sequences of one-character strings, so   *)
(* that slicing, concatenation, the regular expression and partial writes  *)
(* are computed and not assumed.                                           *)
(*                                                                         *)
(* Spec      one request at a time, each handler run to completion.        *)
(* SpecConc  save requests served concurrently (one goroutine each), with  *)
(*           the system calls of ioutil.WriteFile interleaved.             *)
(***************************************************************************)
EXTENDS Integers, Sequences, FiniteSets, TLC

VARIABLES
    build,      \* which of the two programs is running
    files,      \* the working directory: file name -> content
    req,        \* the request served last
    resp,       \* the response written to it
    handler,    \* the handler function the request was dispatched to
    io,         \* the file accesses made while serving it
    lastSave,   \* history: title -> outcome of the most recent save of it
    conns       \* SpecConc: the save requests in flight

vars == <<build, files, req, resp, handler, io, lastSave, conns>>

-----------------------------------------------------------------------------
(* Strings *)

sView   == <<"v", "i", "e", "w">>
sEdit   == <<"e", "d", "i", "t">>
sSave   == <<"s", "a", "v", "e">>
sDelete == <<"d", "e", "l", "e", "t", "e">>
sSlash  == <<"/">>
sDot    == <<".">>
sDotDot == <<".", ".">>
sTxt    == <<".", "t", "x", "t">>
sHtml   == <<".", "h", "t", "m", "l">>

HasPrefix(s, p) == Len(s) >= Len(p) /\ SubSeq(s, 1, Len(p)) = p

\* Go's s[n:]
SliceFrom(s, n) == SubSeq(s, n + 1, Len(s))

Chars(s) == {s[i] : i \in 1..Len(s)}

Lower  == {"a", "b", "c", "d", "e", "f", "g", "h", "i", "j", "k", "l", "m",
           "n", "o", "p", "q", "r", "s", "t", "u", "v", "w", "x", "y", "z"}
Upper  == {"A", "B", "C", "D", "E", "F", "G", "H", "I", "J", "K", "L", "M",
           "N", "O", "P", "Q", "R", "S", "T", "U", "V", "W", "X", "Y", "Z"}
Digits == {"0", "1", "2", "3", "4", "5", "6", "7", "8", "9"}

\* The class \w of Go's regexp package: [0-9A-Za-z_]
WordChars == Lower \cup Upper \cup Digits \cup {"_"}

-----------------------------------------------------------------------------
(* Status codes and errors *)

StatusOK                  == 200
StatusMovedPermanently    == 301
StatusFound               == 302
StatusNotFound            == 404
StatusInternalServerError == 500

NoErr == "nil"

\* A response. kind names which of the net/http calls wrote it.
Rendered(tmpl, p) ==
    [kind |-> "render", status |-> StatusOK, location |-> <<>>,
     tmpl |-> tmpl, page |-> p, msg |-> NoErr]
Redirect(url, code) ==
    [kind |-> "redirect", status |-> code, location |-> url,
     tmpl |-> <<>>, page |-> [Title |-> <<>>, Body |-> <<>>], msg |-> NoErr]
Error(msg, code) ==
    [kind |-> "error", status |-> code, location |-> <<>>,
     tmpl |-> <<>>, page |-> [Title |-> <<>>, Body |-> <<>>], msg |-> msg]
NotFound == Error("404 page not found", StatusNotFound)
NoResponse ==
    [kind |-> "none", status |-> 0, location |-> <<>>,
     tmpl |-> <<>>, page |-> [Title |-> <<>>, Body |-> <<>>], msg |-> NoErr]

-----------------------------------------------------------------------------
(* The file system under ioutil.ReadFile and ioutil.WriteFile *)

\* The working directory is flat: the server never creates a directory, so a
\* name with a directory part names no file that can be opened.
InWorkingDir(name) == "/" \notin Chars(name)

Put(fs, name, data) ==
    [n \in DOMAIN fs \cup {name} |-> IF n = name THEN data ELSE fs[n]]

\* write(2) of data at offset off of a file that holds old: the bytes written
\* replace those under them and the rest of the file stays.
WriteAt(old, off, data) ==
    LET end == IF Len(old) > off + Len(data) THEN Len(old) ELSE off + Len(data)
    IN  [i \in 1..end |->
            IF i > off /\ i <= off + Len(data) THEN data[i - off] ELSE old[i]]

\* The faults a write of data can meet: none, a failing open, a write that
\* stops after n < len(data) bytes, a failing close.
NoFault == [at |-> "none", n |-> 0]
Faults(data) ==
    {NoFault, [at |-> "open", n |-> 0], [at |-> "close", n |-> 0]}
        \cup {[at |-> "write", n |-> k] : k \in 0..(Len(data) - 1)}

\* OpenFile without O_TRUNC: an existing file keeps its content
OpenFile_NoTrunc(fs, name, fault) ==
    IF fault.at = "open" THEN [fs |-> fs, err |-> "permission denied"]
    ELSE IF ~InWorkingDir(name)
    THEN [fs |-> fs, err |-> "no such file or directory"]
    ELSE [fs |-> IF name \in DOMAIN fs THEN fs ELSE Put(fs, name, <<>>),
          err |-> NoErr]

\* os.OpenFile(name, O_WRONLY|O_CREATE|O_TRUNC, 0600)
OpenFile(fs, name, fault) ==
    IF fault.at = "open" THEN [fs |-> fs, err |-> "permission denied"]
    ELSE IF ~InWorkingDir(name)
    THEN [fs |-> fs, err |-> "no such file or directory"]
    ELSE [fs |-> Put(fs, name, <<>>), err |-> NoErr]

\* f.Write(data) on a descriptor at offset off
FileWrite(fs, name, off, data, fault) ==
    IF fault.at = "write"
    THEN [fs |-> Put(fs, name, WriteAt(fs[name], off, SubSeq(data, 1, fault.n))),
          err |-> "no space left on device"]
    ELSE [fs |-> Put(fs, name, WriteAt(fs[name], off, data)), err |-> NoErr]

\* f.Close()
FileClose(fault) == IF fault.at = "close" THEN "input/output error" ELSE NoErr

\* WriteFile that removes the file it could not write completely
WriteFile_RemovesOnError(fs, name, data, fault) ==
    LET o == OpenFile(fs, name, fault)
    IN  IF o.err # NoErr THEN o
        ELSE LET w == FileWrite(o.fs, name, 0, data, fault)
                 c == FileClose(fault)
             IN  IF w.err # NoErr
                 THEN [fs |-> [n \in DOMAIN w.fs \ {name} |-> w.fs[n]], err |-> w.err]
                 ELSE [fs |-> w.fs, err |-> c]

\* ioutil.WriteFile: open with truncation, write, close; the first error wins.
WriteFile(fs, name, data, fault) ==
    LET o == OpenFile(fs, name, fault)
    IN  IF o.err # NoErr THEN o
        ELSE LET w == FileWrite(o.fs, name, 0, data, fault)
                 c == FileClose(fault)
             IN  [fs |-> w.fs, err |-> IF w.err # NoErr THEN w.err ELSE c]

\* ioutil.ReadFile
ReadFile(fs, name) ==
    IF name \in DOMAIN fs
    THEN [data |-> fs[name], err |-> NoErr]
    ELSE [data |-> <<>>, err |-> "no such file or directory"]

-----------------------------------------------------------------------------
(* The page store (identical in both builds) *)

Page(title, body) == [Title |-> title, Body |-> body]

\* func (p *Page) save() error
save(fs, p, fault) == WriteFile(fs, p.Title \o sTxt, p.Body, fault)

\* func loadPage(title string) (*Page, error)
loadPage(fs, title) ==
    LET r == ReadFile(fs, title \o sTxt)
    IN  IF r.err # NoErr
        THEN [p |-> Page(<<>>, <<>>), err |-> r.err]
        ELSE [p |-> Page(title, r.data), err |-> NoErr]

Read(title)  == [op |-> "read",  name |-> title \o sTxt]
Write(title) == [op |-> "write", name |-> title \o sTxt]

-----------------------------------------------------------------------------
(* Rendering *)

\* part_000: var templates = template.Must(template.ParseFiles(...)); the
\* set holds the names of the templates parsed at start-up.
templates == {sEdit \o sHtml, sView \o sHtml}

\* wiki.go parses pageName + ".html" on every call; the template files of the
\* deployment are the ones part_000 names.
templateFiles == {sEdit \o sHtml, sView \o sHtml}

\* part_000: func renderTemplate(w, pageName, p)
renderTemplate(pageName, p) ==
    IF pageName \o sHtml \in templates
    THEN Rendered(pageName \o sHtml, p)
    ELSE Error("html/template: template is undefined", StatusInternalServerError)

\* wiki.go: func renderTemplate(w, pageName, p)
wiki_renderTemplate(pageName, p) ==
    IF pageName \o sHtml \notin templateFiles
    THEN Error("open: no such file or directory", StatusInternalServerError)
    ELSE Rendered(pageName \o sHtml, p)

-----------------------------------------------------------------------------
(* Handlers of part_000: the title is handed in by makeHandler.            *)
(* A handler's result: the file system it leaves, the response it writes,  *)
(* the file accesses it made, its own name, the title it worked on and the *)
(* error of its load or save.                                              *)

\* viewHandler that sends a missing page back to the view route
viewHandler_RedirectsToView(fs, r, title) ==
    LET l == loadPage(fs, title)
    IN  [fs |-> fs, io |-> <<Read(title)>>, ran |-> "viewHandler", title |-> title,
         err |-> l.err,
         resp |-> IF l.err # NoErr
                  THEN Redirect(sSlash \o sView \o sSlash \o title, StatusFound)
                  ELSE renderTemplate(sView, l.p)]

viewHandler(fs, r, title) ==
    LET l == loadPage(fs, title)
    IN  [fs |-> fs, io |-> <<Read(title)>>, ran |-> "viewHandler", title |-> title,
         err |-> l.err,
         resp |-> IF l.err # NoErr
                  THEN Redirect(sSlash \o sEdit \o sSlash \o title, StatusFound)
                  ELSE renderTemplate(sView, l.p)]

\* editHandler that reports a missing page as an error
editHandler_MissingIsError(fs, r, title) ==
    LET l == loadPage(fs, title)
    IN  [fs |-> fs, io |-> <<Read(title)>>, ran |-> "editHandler", title |-> title,
         err |-> l.err,
         resp |-> IF l.err # NoErr
                  THEN Error(l.err, StatusInternalServerError)
                  ELSE renderTemplate(sEdit, l.p)]

\* editHandler that creates the page it did not find
editHandler_CreatesFile(fs, r, title) ==
    LET l == loadPage(fs, title)
        p == IF l.err # NoErr THEN Page(title, <<>>) ELSE l.p
    IN  [fs |-> IF l.err # NoErr THEN save(fs, p, NoFault).fs ELSE fs,
         io |-> <<Read(title)>>, ran |-> "editHandler", title |-> title,
         err |-> l.err,
         resp |-> renderTemplate(sEdit, p)]

editHandler(fs, r, title) ==
    LET l == loadPage(fs, title)
        p == IF l.err # NoErr THEN Page(title, <<>>) ELSE l.p
    IN  [fs |-> fs, io |-> <<Read(title)>>, ran |-> "editHandler", title |-> title,
         err |-> l.err,
         resp |-> renderTemplate(sEdit, p)]

\* saveHandler that redirects to the edit route after a save
saveHandler_RedirectsToEdit(fs, r, title) ==
    LET body == r.form
        p    == Page(title, body)
        s    == save(fs, p, r.fault)
    IN  [fs |-> s.fs, io |-> <<Write(title)>>, ran |-> "saveHandler", title |-> title,
         err |-> s.err,
         resp |-> IF s.err # NoErr
                  THEN Error(s.err, StatusInternalServerError)
                  ELSE Redirect(sSlash \o sEdit \o sSlash \o title, StatusFound)]

saveHandler(fs, r, title) ==
    LET body == r.form
        p    == Page(title, body)
        s    == save(fs, p, r.fault)
    IN  [fs |-> s.fs, io |-> <<Write(title)>>, ran |-> "saveHandler", title |-> title,
         err |-> s.err,
         resp |-> IF s.err # NoErr
                  THEN Error(s.err, StatusInternalServerError)
                  ELSE Redirect(sSlash \o sView \o sSlash \o title, StatusFound)]

\* validPath = regexp.MustCompile("^/(edit|save|view)/([\\w]+)$"), applied
\* with FindStringSubmatch: <<>> for nil, else <<match, route, title>>.
validPath(path) ==
    LET ms == {<<path, rt, SliceFrom(path, Len(rt) + 2)>> :
                  rt \in {r \in {sEdit, sSave, sView} :
                             /\ HasPrefix(path, sSlash \o r \o sSlash)
                             /\ Len(path) >= Len(r) + 3
                             /\ Chars(SliceFrom(path, Len(r) + 2)) \subseteq WordChars}}
    IN  IF ms = {} THEN <<>> ELSE CHOOSE m \in ms : TRUE

\* the call fn(w, r, title) of the handler function named fn
Call(fn, fs, r, title) ==
    CASE fn = "viewHandler" -> viewHandler(fs, r, title)
      [] fn = "editHandler" -> editHandler(fs, r, title)
      [] fn = "saveHandler" -> saveHandler(fs, r, title)

\* func makeHandler(fn) http.HandlerFunc
makeHandler(fn, fs, r) ==
    LET m == validPath(r.path)
    IN  IF m = <<>>
        THEN [fs |-> fs, io |-> <<>>, ran |-> "none", title |-> <<>>,
              err |-> "Invalid Page Title", resp |-> NotFound]
        ELSE Call(fn, fs, r, m[3])

-----------------------------------------------------------------------------
(* Handlers of wiki.go: the title is whatever follows the route prefix.    *)

wiki_viewHandler(fs, r) ==
    LET title == SliceFrom(r.path, Len(sSlash \o sView \o sSlash))
        l     == loadPage(fs, title)
    IN  [fs |-> fs, io |-> <<Read(title)>>, ran |-> "viewHandler", title |-> title,
         err |-> l.err,
         resp |-> IF l.err # NoErr
                  THEN Redirect(sSlash \o sEdit \o sSlash \o title, StatusFound)
                  ELSE wiki_renderTemplate(sView, l.p)]

wiki_editHandler(fs, r) ==
    LET title == SliceFrom(r.path, Len(sSlash \o sEdit \o sSlash))
        l     == loadPage(fs, title)
        p     == IF l.err # NoErr THEN Page(title, <<>>) ELSE l.p
    IN  [fs |-> fs, io |-> <<Read(title)>>, ran |-> "editHandler", title |-> title,
         err |-> l.err,
         resp |-> wiki_renderTemplate(sEdit, p)]

wiki_saveHandler(fs, r) ==
    LET title == SliceFrom(r.path, Len(sSlash \o sSave \o sSlash))
        body  == r.form
        p     == Page(title, body)
        s     == save(fs, p, r.fault)
    IN  [fs |-> s.fs, io |-> <<Write(title)>>, ran |-> "saveHandler", title |-> title,
         err |-> s.err,
         resp |-> IF s.err # NoErr
                  THEN Error(s.err, StatusInternalServerError)
                  ELSE Redirect(sSlash \o sView \o sSlash \o title, StatusFound)]

-----------------------------------------------------------------------------
(* The default ServeMux, on which main registers the three routes *)

patterns == {sSlash \o sView \o sSlash, sSlash \o sEdit \o sSlash,
             sSlash \o sSave \o sSlash}

RECURSIVE Split(_)
\* the segments of s between its slashes
Split(s) ==
    IF "/" \notin Chars(s) THEN <<s>>
    ELSE LET i == CHOOSE k \in 1..Len(s) :
                     s[k] = "/" /\ \A j \in 1..(k - 1) : s[j] # "/"
         IN  <<SubSeq(s, 1, i - 1)>> \o Split(SliceFrom(s, i))

RECURSIVE Resolve(_, _)
\* path.Clean on a rooted path: empty and "." segments go, ".." takes the
\* segment before it with it, and ".." at the root goes
Resolve(segs, stack) ==
    IF segs = <<>> THEN stack
    ELSE LET h == Head(segs)
         IN  IF h = <<>> \/ h = sDot THEN Resolve(Tail(segs), stack)
             ELSE IF h = sDotDot
             THEN Resolve(Tail(segs),
                          IF stack = <<>> THEN <<>>
                          ELSE SubSeq(stack, 1, Len(stack) - 1))
             ELSE Resolve(Tail(segs), Append(stack, h))

RECURSIVE Join(_)
Join(segs) ==
    IF segs = <<>> THEN <<>> ELSE sSlash \o Head(segs) \o Join(Tail(segs))

pathClean(p) ==
    LET segs == Resolve(Split(SliceFrom(p, 1)), <<>>)
    IN  IF segs = <<>> THEN sSlash ELSE Join(segs)

\* net/http cleanPath: the canonical path, its trailing slash kept
cleanPath(p) ==
    IF p = <<>> THEN sSlash
    ELSE LET q  == IF p[1] # "/" THEN sSlash \o p ELSE p
             np == pathClean(q)
         IN  IF q[Len(q)] = "/" /\ np # sSlash THEN np \o sSlash ELSE np

\* ServeMux.Handler: a subtree root asked for without its slash and a path
\* that is not canonical are redirected; then the longest registered pattern
\* that is a prefix of the path serves it, and none means 404.
ServeMux(path) ==
    LET cp == cleanPath(path)
        ps == {p \in patterns : HasPrefix(path, p)}
    IN  IF cp \notin patterns /\ (cp \o sSlash) \in patterns
        THEN [kind |-> "redirect", pattern |-> <<>>, url |-> cp \o sSlash]
        ELSE IF cp # path
        THEN [kind |-> "redirect", pattern |-> <<>>, url |-> cp]
        ELSE IF ps = {}
        THEN [kind |-> "notfound", pattern |-> <<>>, url |-> <<>>]
        ELSE [kind |-> "handler", url |-> <<>>,
              pattern |-> CHOOSE p \in ps : \A q \in ps : Len(q) <= Len(p)]

-----------------------------------------------------------------------------
(* Requests *)

tEmpty   == <<>>
tGo      == <<"G", "o">>
tA1      == <<"a", "_", "1">>
tBadName == <<"b", "a", "d", " ", "n", "a", "m", "e">>
tSecret  == <<".", ".", "/", "s", "e", "c", "r", "e", "t">>
tSubPage == <<"s", "u", "b", "/", "p", "a", "g", "e">>

Titles == {tGo, tA1, tBadName, tSecret}

\* the request paths tried: every route with every title, and the spec's
\* examples of paths that are no page route
Paths ==
    {sSlash \o rt \o sSlash \o t : rt \in {sView, sEdit, sSave}, t \in Titles}
        \cup {sSlash \o sView \o sSlash \o tEmpty,
              sSlash \o sView,
              sSlash \o sDelete \o sSlash \o tGo,
              sSlash \o sSave \o sSlash \o tSubPage}

bHi  == <<"h", "i">>
bYou == <<"y", "o", "u">>

\* the values of the form field "body" tried
Bodies == {bHi, bYou}

\* the mux's decision on each path tried
Route == [p \in Paths |-> ServeMux(p)]

Request(path, form, fault) == [path |-> path, form |-> form, fault |-> fault]

-----------------------------------------------------------------------------
(* Spec: one request at a time *)

NoFiles == [n \in {} |-> <<>>]

Init ==
    /\ build \in {"prefix", "regexp"}
    /\ files = NoFiles
    /\ req = Request(<<>>, <<>>, NoFault)
    /\ resp = NoResponse
    /\ handler = "none"
    /\ io = <<>>
    /\ lastSave = NoFiles
    /\ conns = <<>>

\* The history of saves: whether the most recent save of the title succeeded
\* and what it wrote.
Saved(hist, out, r) ==
    IF out.ran # "saveHandler" THEN hist
    ELSE Put(hist, out.title,
             [ok   |-> out.err = NoErr,
              body |-> IF out.err = NoErr THEN r.form ELSE <<>>])

\* The request r has been served with result out.
Served(r, out) ==
    /\ files' = out.fs
    /\ req' = r
    /\ resp' = out.resp
    /\ handler' = out.ran
    /\ io' = out.io
    /\ lastSave' = Saved(lastSave, out, r)
    /\ UNCHANGED <<build, conns>>

ByMux(fs, res) ==
    [fs |-> fs, io |-> <<>>, ran |-> "none", title |-> <<>>, err |-> NoErr,
     resp |-> res]

\* the mux answers a path that is not canonical, or a subtree root without its
\* slash, with a redirect of its own
MuxRedirect(path) ==
    /\ Route[path].kind = "redirect"
    /\ Served(Request(path, <<>>, NoFault),
              ByMux(files, Redirect(Route[path].url, StatusMovedPermanently)))

\* no registered pattern: http.NotFoundHandler
MuxNotFound(path) ==
    /\ Route[path].kind = "notfound"
    /\ Served(Request(path, <<>>, NoFault), ByMux(files, NotFound))

Routed(path, rt) ==
    /\ Route[path].kind = "handler"
    /\ Route[path].pattern = sSlash \o rt \o sSlash

\* part_000: http.HandleFunc("/view/", makeHandler(viewHandler))
View(path) ==
    /\ build = "regexp"
    /\ Routed(path, sView)
    /\ LET r == Request(path, <<>>, NoFault)
       IN  Served(r, makeHandler("viewHandler", files, r))

\* part_000: http.HandleFunc("/edit/", makeHandler(editHandler))
Edit(path) ==
    /\ build = "regexp"
    /\ Routed(path, sEdit)
    /\ LET r == Request(path, <<>>, NoFault)
       IN  Served(r, makeHandler("editHandler", files, r))

\* part_000: http.HandleFunc("/save/", makeHandler(saveHandler))
Save(path, form, fault) ==
    /\ build = "regexp"
    /\ Routed(path, sSave)
    /\ LET r == Request(path, form, fault)
       IN  Served(r, makeHandler("saveHandler", files, r))

\* wiki.go: http.HandleFunc("/view/", viewHandler)
WikiView(path) ==
    /\ build = "prefix"
    /\ Routed(path, sView)
    /\ LET r == Request(path, <<>>, NoFault)
       IN  Served(r, wiki_viewHandler(files, r))

\* wiki.go: http.HandleFunc("/edit/", editHandler)
WikiEdit(path) ==
    /\ build = "prefix"
    /\ Routed(path, sEdit)
    /\ LET r == Request(path, <<>>, NoFault)
       IN  Served(r, wiki_editHandler(files, r))

\* wiki.go: http.HandleFunc("/save/", saveHandler)
WikiSave(path, form, fault) ==
    /\ build = "prefix"
    /\ Routed(path, sSave)
    /\ LET r == Request(path, form, fault)
       IN  Served(r, wiki_saveHandler(files, r))

Next ==
    \/ \E path \in Paths : View(path)
    \/ \E path \in Paths : Edit(path)
    \/ \E path \in Paths, form \in Bodies : \E fault \in Faults(form) :
          Save(path, form, fault)
    \/ \E path \in Paths : WikiView(path)
    \/ \E path \in Paths : WikiEdit(path)
    \/ \E path \in Paths, form \in Bodies : \E fault \in Faults(form) :
          WikiSave(path, form, fault)
    \/ \E path \in Paths : MuxRedirect(path)
    \/ \E path \in Paths : MuxNotFound(path)

Spec == Init /\ [][Next]_vars

-----------------------------------------------------------------------------
(* SpecConc: save requests served concurrently.  net/http runs every request *)
(* in a goroutine of its own and the handlers take no lock, so the system    *)
(* calls of one save's ioutil.WriteFile interleave with those of another.    *)
(* Every descriptor has its own offset, which starts at 0.                   *)

MaxConns == 2

\* a connection: where its handler stands, the Page it saves and the status of
\* the response it has written (0: none yet)
Conn(pc, title, body, res) ==
    [pc |-> pc, title |-> title, body |-> body, status |-> res.status]

Idle == Conn("idle", <<>>, <<>>, NoResponse)

InitConc ==
    /\ build \in {"regexp", "prefix"}
    /\ files = NoFiles
    /\ req = Request(<<>>, <<>>, NoFault)
    /\ resp = NoResponse
    /\ handler = "none"
    /\ io = <<>>
    /\ lastSave = NoFiles
    /\ conns = [id \in 1..MaxConns |-> Idle]

\* the title the build's save route hands to saveHandler, <<>> with found
\* FALSE when makeHandler answers 404 instead
SaveTitle(b, path) ==
    IF b = "regexp"
    THEN [found |-> validPath(path) # <<>>,
          title |-> IF validPath(path) # <<>> THEN validPath(path)[3] ELSE <<>>]
    ELSE [found |-> TRUE, title |-> SliceFrom(path, Len(sSlash \o sSave \o sSlash))]

\* a save request arrives and is dispatched: saveHandler builds its Page
Accept(id, path, form) ==
    /\ conns[id].pc = "idle"
    /\ Routed(path, sSave)
    /\ LET t == SaveTitle(build, path)
       IN  conns' = [conns EXCEPT ![id] =
                        IF t.found THEN Conn("open", t.title, form, NoResponse)
                        ELSE Conn("done", <<>>, <<>>, NotFound)]
    /\ UNCHANGED <<build, files, req, resp, handler, io, lastSave>>

\* WriteFile: os.OpenFile(filename, O_WRONLY|O_CREATE|O_TRUNC, 0600)
ConnOpen(id) ==
    /\ conns[id].pc = "open"
    /\ LET c == conns[id]
           o == OpenFile(files, c.title \o sTxt, NoFault)
       IN  /\ files' = o.fs
           /\ conns' = [conns EXCEPT ![id] =
                           IF o.err # NoErr
                           THEN Conn("done", c.title, c.body,
                                     Error(o.err, StatusInternalServerError))
                           ELSE Conn("write", c.title, c.body, NoResponse)]
    /\ UNCHANGED <<build, req, resp, handler, io, lastSave>>

\* WriteFile: f.Write(data)
ConnWrite(id) ==
    /\ conns[id].pc = "write"
    /\ LET c == conns[id]
           w == FileWrite(files, c.title \o sTxt, 0, c.body, NoFault)
       IN  /\ files' = w.fs
           /\ conns' = [conns EXCEPT ![id] = Conn("close", c.title, c.body, NoResponse)]
    /\ UNCHANGED <<build, req, resp, handler, io, lastSave>>

\* WriteFile: f.Close(); then saveHandler redirects to the view route
ConnClose(id) ==
    /\ conns[id].pc = "close"
    /\ LET c == conns[id]
       IN  conns' = [conns EXCEPT ![id] =
                        Conn("done", c.title, c.body,
                             IF FileClose(NoFault) # NoErr
                             THEN Error(FileClose(NoFault), StatusInternalServerError)
                             ELSE Redirect(sSlash \o sView \o sSlash \o c.title,
                                           StatusFound))]
    /\ UNCHANGED <<build, files, req, resp, handler, io, lastSave>>

NextConc ==
    \/ \E id \in 1..MaxConns, path \in Paths, form \in Bodies : Accept(id, path, form)
    \/ \E id \in 1..MaxConns : ConnOpen(id)
    \/ \E id \in 1..MaxConns : ConnWrite(id)
    \/ \E id \in 1..MaxConns : ConnClose(id)

SpecConc == InitConc /\ [][NextConc]_vars

-----------------------------------------------------------------------------
(* The claims *)

\* a title of one or more word characters
ValidTitle(t) == Len(t) >= 1 /\ Chars(t) \subseteq WordChars

ValidTitles == {t \in Titles : ValidTitle(t)}

RoutePath(rt, t) == sSlash \o rt \o sSlash \o t

\* the path has the shape /(view|edit|save)/<one or more word characters>
MatchesRoute(path) ==
    \E rt \in {sView, sEdit, sSave} :
        /\ HasPrefix(path, sSlash \o rt \o sSlash)
        /\ ValidTitle(SliceFrom(path, Len(rt) + 2))

Present(fs, t) == (t \o sTxt) \in DOMAIN fs

\* the request served by the step was a save that met no fault
SaveSucceeded(r, t) == r.path = RoutePath(sSave, t) /\ r.fault = NoFault

\* C1: whenever the most recent save of a valid title T succeeded, loadPage(T)
\* succeeds and returns the Page with Title T and the body of that save, and no
\* other body, whatever was saved to T before and to other titles since.
C1_SaveLoadRoundTrip ==
    \A t \in DOMAIN lastSave :
        (ValidTitle(t) /\ lastSave[t].ok)
            => loadPage(files, t) = [p |-> Page(t, lastSave[t].body), err |-> NoErr]

\* two titles saved, the one saved first still holding its own body
C1_Witness ==
    /\ {tGo, tA1} \subseteq DOMAIN lastSave
    /\ lastSave[tGo] = [ok |-> TRUE, body |-> bHi]
    /\ lastSave[tA1] = [ok |-> TRUE, body |-> bYou]
    /\ req.path = RoutePath(sSave, tA1)
    /\ loadPage(files, tGo).p = Page(tGo, bHi)

\* C2: a request whose path does not match /(view|edit|save)/\w+ is answered
\* with 404, and no handler runs, no file is read or written and no redirect
\* is issued.
C2_NonMatchingPathIs404 ==
    (resp.kind # "none" /\ ~MatchesRoute(req.path))
        => /\ resp.status = StatusNotFound
           /\ resp.kind # "redirect"
           /\ handler = "none"
           /\ io = <<>>

\* C2 as far as it holds: in the build that routes through makeHandler a path
\* that does not match runs no handler and touches no file; it is answered
\* with 404, or with the mux's own 301 when the path is not canonical.
C2_RegexpBuildRunsNoHandler ==
    (build = "regexp" /\ resp.kind # "none" /\ ~MatchesRoute(req.path))
        => /\ handler = "none"
           /\ io = <<>>
           /\ resp.status \in {StatusNotFound, StatusMovedPermanently}

\* C3: every file read or written is named <title>.txt for a title of one or
\* more word characters.
C3_StorageKeysAreWordTitles ==
    \A i \in DOMAIN io :
        \E n \in 1..Len(io[i].name) :
            /\ io[i].name = SubSeq(io[i].name, 1, n) \o sTxt
            /\ ValidTitle(SubSeq(io[i].name, 1, n))

\* C3 as far as it holds: in the build that routes through makeHandler.
C3_RegexpBuildKeysAreWordTitles ==
    build = "regexp" => C3_StorageKeysAreWordTitles

\* the request served last was a save, and its WriteFile returned an error
SaveFailed ==
    /\ handler = "saveHandler"
    /\ ~lastSave[SliceFrom(req.path, Len(sSlash \o sSave \o sSlash))].ok

\* C4: a save that fails leaves every file as it was before the save began,
\* and the client gets a 500 that carries the error message and no redirect.
C4_FailedSaveLeavesFileIntact ==
    [][SaveFailed'
          => /\ files' = files
             /\ resp'.kind = "error"
             /\ resp'.status = StatusInternalServerError
             /\ resp'.msg # NoErr]_vars

\* C4 as far as it holds: a failed save is answered with a 500 that carries
\* the message, and the file is as before when it was the open that failed.
C4_FailedSaveIs500 ==
    [][(handler' = "saveHandler" /\ req'.fault # NoFault)
          => /\ resp'.kind = "error"
             /\ resp'.status = StatusInternalServerError
             /\ resp'.msg # NoErr
             /\ (req'.fault.at = "open" => files' = files)]_vars

\* the save requests among the connections that were answered with the redirect
Savers(t) ==
    {id \in DOMAIN conns : conns[id].title = t /\ conns[id].status = StatusFound}

\* C5: once all the concurrent saves of a title have completed, its file holds
\* the complete body of one of them, and never a mixture of several.
C5_ConcurrentSavesLeaveOneBody ==
    \A t \in Titles :
        ((\A id \in DOMAIN conns : conns[id].pc = "done") /\ Cardinality(Savers(t)) >= 2)
            => /\ Present(files, t)
               /\ files[t \o sTxt] \in {conns[id].body : id \in Savers(t)}

\* C6: a view of a valid title whose file does not exist is answered with a
\* 302 to /edit/<the same title>, and nothing is rendered.
C6_ViewMissingRedirectsToEdit ==
    [][\A t \in ValidTitles :
          (req'.path = RoutePath(sView, t) /\ ~Present(files, t))
              => resp' = Redirect(RoutePath(sEdit, t), StatusFound)]_vars

C6_Witness ==
    /\ req.path = RoutePath(sView, tGo)
    /\ ~Present(files, tGo)
    /\ Present(files, tA1)
    /\ resp.status = StatusFound
    /\ resp.location = RoutePath(sEdit, tGo)

\* C7: a save of a valid title T with body B whose write succeeds is answered
\* with a 302 to /view/T, and a view of T that follows it is answered with 200
\* and the view template rendered with the Page of Title T and Body B.
C7_SaveThenViewRenders ==
    [][\A t \in ValidTitles :
          /\ SaveSucceeded(req', t) => resp' = Redirect(RoutePath(sView, t), StatusFound)
          /\ (SaveSucceeded(req, t) /\ req'.path = RoutePath(sView, t))
                => resp' = Rendered(sView \o sHtml, Page(t, req.form))]_vars

C7_Witness ==
    /\ req.path = RoutePath(sView, tA1)
    /\ tA1 \in DOMAIN lastSave
    /\ lastSave[tA1] = [ok |-> TRUE, body |-> bYou]
    /\ resp.status = StatusOK
    /\ resp.tmpl = sView \o sHtml
    /\ resp.page = Page(tA1, bYou)

\* C8: an edit of a valid title whose file does not exist is answered with 200
\* and the edit template rendered with the Page of that title and an empty Body.
C8_EditMissingRendersEmpty ==
    [][\A t \in ValidTitles :
          (req'.path = RoutePath(sEdit, t) /\ ~Present(files, t))
              => resp' = Rendered(sEdit \o sHtml, Page(t, <<>>))]_vars

C8_Witness ==
    /\ req.path = RoutePath(sEdit, tGo)
    /\ ~Present(files, tGo)
    /\ resp.status = StatusOK
    /\ resp.tmpl = sEdit \o sHtml
    /\ resp.page = Page(tGo, <<>>)

\* C9: per title, a successful save makes the title Present, no request of any
\* kind on any title makes a Present title Missing, and a view of a Present
\* title renders the page and does not redirect to edit.
C9_PresentIsStable ==
    [][/\ \A n \in DOMAIN files : n \in DOMAIN files'
       /\ \A t \in ValidTitles :
             /\ SaveSucceeded(req', t) => Present(files', t)
             /\ (Present(files, t) /\ req'.path = RoutePath(sView, t))
                   => /\ resp'.kind = "render"
                      /\ resp'.tmpl = sView \o sHtml
                      /\ resp'.page.Title = t]_vars

\* a Present title has lived through a failed save and is viewed
C9_Witness ==
    /\ tGo \in DOMAIN lastSave
    /\ ~lastSave[tGo].ok
    /\ Present(files, tGo)
    /\ req.path = RoutePath(sView, tGo)
    /\ resp.kind = "render"

\* C10: a request that is not dispatched to the save handler changes no file,
\* the save handler runs on the save route only, and a save changes no file
\* but the one of the title in its own path.
C10_Frame ==
    [][/\ handler' # "saveHandler" => files' = files
       /\ handler' = "saveHandler" =>
             /\ HasPrefix(req'.path, sSlash \o sSave \o sSlash)
             /\ \A n \in (DOMAIN files \cup DOMAIN files') :
                   n # SliceFrom(req'.path, Len(sSlash \o sSave \o sSlash)) \o sTxt
                      => (n \in DOMAIN files /\ n \in DOMAIN files' /\ files'[n] = files[n])]_vars

\* an edit of a missing title has been served and has created no file, while
\* another title's file has been saved before it
C10_Witness ==
    /\ req.path = RoutePath(sEdit, tA1)
    /\ handler = "editHandler"
    /\ ~Present(files, tA1)
    /\ Present(files, tGo)

=============================================================================
